---- MODULE Spec2Model ----
(***************************************************************************)
(* A model of the Windows readouts of libmacchina (src/windows/mod.rs).    *)
(*                                                                         *)
(* Every readout is an independent accessor over one OS facility, so the   *)
(* module holds one specification per readout:                             *)
(*   SpecBattery  WindowsBatteryReadout  (percentage, status, health)      *)
(*   SpecMemory   WindowsMemoryReadout   (total, used, ...)                *)
(*   SpecWmi      COM_LIB, wmi_connection, WindowsGeneralReadout::os_name  *)
(*   SpecName     WindowsGeneralReadout::username, hostname                *)
(*   SpecProduct  WindowsProductReadout  (new, vendor, product, family)    *)
(*   SpecPackage  WindowsPackageReadout  (count_pkgs and its four probes)  *)
(*   SpecNetwork  WindowsNetworkReadout  (logical_address)                 *)
(* The OS facility an accessor reads is the environment: its answers are   *)
(* drawn from the values the facility's type and documentation allow.      *)
(***************************************************************************)
EXTENDS Integers, Sequences, FiniteSets, TLC

VARIABLES
    batOp,      \* the battery accessor called last
    batCallOk,  \* whether GetSystemPowerStatus succeeds
    batPower,   \* the SYSTEM_POWER_STATUS it fills in
    batRes,     \* what the accessor returned
    memOp,      \* the memory accessor called last
    memCallOk,  \* whether GlobalMemoryStatusEx succeeds
    memSnap,    \* the MEMORYSTATUSEX snapshot it fills in
    memRes,     \* what the accessor returned
    comLib,     \* per thread: the COM_LIB thread-local (0: not initialised)
    comCreated, \* per thread: how many COMLibrary values were created
    wmiCreated, \* per thread: how many WMIConnection values were created
    wmiConn,    \* per thread: the connection the last os_name() call made
    nextHandle, \* the next fresh handle
    osCalls,    \* per thread: how many os_name() calls were made
    osRes,      \* per thread: what the last os_name() call returned
    osUser,     \* the user name the OS holds (bytes, no terminator)
    osHost,     \* the DNS host name the OS holds (bytes, no terminator)
    namePc,     \* where username() / hostname() stands between its two OS calls
    nameSize,   \* the size variable the two OS calls share
    nameCall,   \* the last finished call: what the OS answered in it
    nameRes,    \* what that call returned
    prodReg,    \* the SystemInformation registry key
    prodObj,    \* the WindowsProductReadout value
    prodSeen,   \* history: the registry key as it was when new() read it
    prodGen,    \* how many times new() ran
    prodOp,     \* the product accessor called last
    prodRes,    \* what the accessor returned
    pkgEnv,     \* environment variables, home directory, build profile
    pkgFs,      \* the directories and the database the probes read
    pkgOut,     \* how count_pkgs() ended
    pkgRes,     \* the list it returned
    netIfaces,  \* what list_afinet_netifas() enumerates
    netListOk,  \* whether list_afinet_netifas() succeeds
    netLocal,   \* what local_ip() answers
    netArg,     \* the interface argument of the last logical_address() call
    netRes      \* what that call returned

batVars == <<batOp, batCallOk, batPower, batRes>>
memVars == <<memOp, memCallOk, memSnap, memRes>>
wmiVars == <<comLib, comCreated, wmiCreated, wmiConn, nextHandle, osCalls, osRes>>
nameVars == <<osUser, osHost, namePc, nameSize, nameCall, nameRes>>
prodVars == <<prodReg, prodObj, prodSeen, prodGen, prodOp, prodRes>>
pkgVars == <<pkgEnv, pkgFs, pkgOut, pkgRes>>
netVars == <<netIfaces, netListOk, netLocal, netArg, netRes>>
vars == <<batVars, memVars, wmiVars, nameVars, prodVars, pkgVars, netVars>>

(***************************************************************************)
(* Result<T, ReadoutError>                                                 *)
(***************************************************************************)
Ok(v) == [tag |-> "Ok", val |-> v]
Err(k) == [tag |-> "Err", kind |-> k]
NoResult == [tag |-> "None"]

IsOk(r) == r.tag = "Ok"
IsErr(r, k) == r.tag = "Err" /\ r.kind = k

(***************************************************************************)
(* u64 / usize arithmetic.  TLC's integers are 32 bits wide, so a          *)
(* 64-bit unsigned value is four 16-bit limbs, least significant first,    *)
(* and the operations are the schoolbook ones, wrapping modulo 2^64.       *)
(***************************************************************************)
LimbBase == 2^16
NLimbs == 1..4

WZero == <<0, 0, 0, 0>>

\* a natural number below 2^31 as a 64-bit value
WFromNat(n) == <<n % LimbBase, n \div LimbBase, 0, 0>>

\* a < b, compared from the most significant limb
WLess(a, b) ==
    \E i \in NLimbs : a[i] < b[i] /\ \A j \in NLimbs : j > i => a[j] = b[j]

WLeq(a, b) == a = b \/ WLess(a, b)

\* the borrow out of limb i of a - b
RECURSIVE WBorrow(_, _, _)
WBorrow(a, b, i) ==
    IF i = 0 THEN 0
    ELSE IF a[i] - b[i] - WBorrow(a, b, i - 1) < 0 THEN 1 ELSE 0

\* a - b modulo 2^64 (wrapping_sub)
WSubWrap(a, b) ==
    [i \in NLimbs |-> (a[i] - b[i] - WBorrow(a, b, i - 1)) % LimbBase]

\* the carry out of limb i of a + b
RECURSIVE WCarry(_, _, _)
WCarry(a, b, i) ==
    IF i = 0 THEN 0
    ELSE (a[i] + b[i] + WCarry(a, b, i - 1)) \div LimbBase

\* a + b modulo 2^64
WAddWrap(a, b) ==
    [i \in NLimbs |-> (a[i] + b[i] + WCarry(a, b, i - 1)) % LimbBase]

\* the remainder carried into limb i (from the limbs above it) of a / d,
\* for a divisor d below 2^15
RECURSIVE WRem(_, _, _)
WRem(a, d, i) ==
    IF i > 4 THEN 0
    ELSE (WRem(a, d, i + 1) * LimbBase + a[i]) % d

\* a / d, long division from the most significant limb, d below 2^15
WDivSmall(a, d) ==
    [i \in NLimbs |-> (WRem(a, d, i + 1) * LimbBase + a[i]) \div d]

\* the carry out of limb i of a * k, k below 2^15
RECURSIVE WMulCarry(_, _, _)
WMulCarry(a, k, i) ==
    IF i = 0 THEN 0
    ELSE (a[i] * k + WMulCarry(a, k, i - 1)) \div LimbBase

\* a * k modulo 2^64, k below 2^15
WMulSmall(a, k) ==
    [i \in NLimbs |-> (a[i] * k + WMulCarry(a, k, i - 1)) % LimbBase]

(***************************************************************************)
(* WindowsBatteryReadout                                                   *)
(***************************************************************************)
\* BYTE fields of SYSTEM_POWER_STATUS
Byte == 0..255
PowerStatus == [ACLineStatus : Byte, BatteryLifePercent : Byte]

\* get_power_status(): the struct if GetSystemPowerStatus succeeded
get_power_status(callOk, st) ==
    IF callOk THEN Ok(st) ELSE Err("Other")

\* the match of percentage(): every value but the sentinel is returned as it is
percentage_of(ps) ==
    IF ps.BatteryLifePercent # 255
    THEN Ok(ps.BatteryLifePercent)
    ELSE Err("Warning")

percentage(callOk, st) ==
    LET power_state == get_power_status(callOk, st)
    IN  IF ~IsOk(power_state) THEN power_state
        ELSE percentage_of(power_state.val)

\* (a status() that coerces every non-zero line status to Charging)
status_of_coercing(ps) ==
    IF ps.ACLineStatus = 0 THEN Ok("Discharging") ELSE Ok("Charging")

status_of(ps) ==
    CASE ps.ACLineStatus = 0 -> Ok("Discharging")
      [] ps.ACLineStatus = 1 -> Ok("Charging")
      [] OTHER -> Err("Other")

status(callOk, st) ==
    LET power_state == get_power_status(callOk, st)
    IN  IF ~IsOk(power_state) THEN power_state
        ELSE status_of(power_state.val)

health == Err("NotImplemented")

\* the power status is whatever the OS reports: any pair of bytes, or a failed call
BatteryInit ==
    /\ batOp = "new"
    /\ batCallOk \in BOOLEAN
    /\ batPower \in PowerStatus
    /\ batRes = NoResult

Percentage ==
    /\ batOp' = "percentage"
    /\ batRes' = percentage(batCallOk, batPower)
    /\ UNCHANGED <<batCallOk, batPower>>
    /\ UNCHANGED <<memVars, wmiVars, nameVars, prodVars, pkgVars, netVars>>

Status ==
    /\ batOp' = "status"
    /\ batRes' = status(batCallOk, batPower)
    /\ UNCHANGED <<batCallOk, batPower>>
    /\ UNCHANGED <<memVars, wmiVars, nameVars, prodVars, pkgVars, netVars>>

Health ==
    /\ batOp' = "health"
    /\ batRes' = health
    /\ UNCHANGED <<batCallOk, batPower>>
    /\ UNCHANGED <<memVars, wmiVars, nameVars, prodVars, pkgVars, netVars>>

BatteryIdle ==
    /\ batOp = "new"
    /\ batCallOk = TRUE
    /\ batPower = [ACLineStatus |-> 0, BatteryLifePercent |-> 0]
    /\ batRes = NoResult

(***************************************************************************)
(* WindowsMemoryReadout                                                    *)
(***************************************************************************)
\* limb values the snapshots are drawn from
SnapLimb == {0, 1, 1023, 1024, 2^15, LimbBase - 1}
SnapBytes == {<<a, b, c, 0>> : a \in SnapLimb, b \in SnapLimb, c \in {0, 1}}

\* the snapshots GlobalMemoryStatusEx can report: available <= total
MemoryStatus ==
    {s \in [ullTotalPhys : SnapBytes, ullAvailPhys : SnapBytes] :
        WLeq(s.ullAvailPhys, s.ullTotalPhys)}

get_memory_status(callOk, snap) ==
    IF callOk THEN Ok(snap) ELSE Err("Other")

total(callOk, snap) ==
    LET memory_status == get_memory_status(callOk, snap)
    IN  IF ~IsOk(memory_status) THEN memory_status
        ELSE Ok(WDivSmall(memory_status.val.ullTotalPhys, 1024))

\* (used() dividing each term before the subtraction)
used_kb_divided_first(ms) ==
    WSubWrap(WDivSmall(ms.ullTotalPhys, 1024), WDivSmall(ms.ullAvailPhys, 1024))

used_kb(ms) ==
    WDivSmall(WSubWrap(ms.ullTotalPhys, ms.ullAvailPhys), 1024)

used(callOk, snap) ==
    LET memory_status == get_memory_status(callOk, snap)
    IN  IF ~IsOk(memory_status) THEN memory_status
        ELSE Ok(used_kb(memory_status.val))

MemoryInit ==
    /\ memOp = "new"
    /\ memCallOk \in BOOLEAN
    /\ memSnap \in MemoryStatus
    /\ memRes = NoResult

Total ==
    /\ memOp' = "total"
    /\ memRes' = total(memCallOk, memSnap)
    /\ UNCHANGED <<memCallOk, memSnap>>
    /\ UNCHANGED <<batVars, wmiVars, nameVars, prodVars, pkgVars, netVars>>

Used ==
    /\ memOp' = "used"
    /\ memRes' = used(memCallOk, memSnap)
    /\ UNCHANGED <<memCallOk, memSnap>>
    /\ UNCHANGED <<batVars, wmiVars, nameVars, prodVars, pkgVars, netVars>>

MemoryUnsupported ==
    \E op \in {"free", "buffers", "cached", "reclaimable",
               "swap_total", "swap_free", "swap_used"} :
        /\ memOp' = op
        /\ memRes' = Err("NotImplemented")
        /\ UNCHANGED <<memCallOk, memSnap>>
        /\ UNCHANGED <<batVars, wmiVars, nameVars, prodVars, pkgVars, netVars>>

MemoryIdle ==
    /\ memOp = "new"
    /\ memCallOk = TRUE
    /\ memSnap = [ullTotalPhys |-> WZero, ullAvailPhys |-> WZero]
    /\ memRes = NoResult

(***************************************************************************)
(* COM_LIB, wmi_connection() and WindowsGeneralReadout::os_name()          *)
(***************************************************************************)
NumThreads == 2
MaxCalls == 3
Threads == 1..NumThreads

\* how far an os_name() call gets; "com_panic" is COMLibrary::new().unwrap()
\* failing inside the thread-local's initialiser
OsNameOutcomes ==
    {"com_panic", "conn_err", "query_err", "no_rows", "no_caption",
     "caption_not_string", "caption"}

\* (a COM_LIB that is a plain function: a new COMLibrary on every access)
com_lib_with_uncached(t) == 0

\* COM_LIB.with(|com| *com): the thread's library if the thread-local holds one
com_lib_with(t) == comLib[t]

\* the os_name() result once the connection exists, by what the query gave
os_name_result(outcome) ==
    CASE outcome = "caption" -> Ok("Microsoft Windows 11 Pro")
      [] OTHER -> Err("Other")

\* one os_name() call on thread t
OsName(t) ==
    /\ osCalls[t] < MaxCalls
    /\ \E outcome \in OsNameOutcomes :
        LET cached == com_lib_with(t)
            \* the lazy initialiser runs only when the thread-local is empty
            initRuns == cached = 0
            com_lib == IF initRuns THEN nextHandle ELSE cached
        IN  /\ outcome = "com_panic" => initRuns
            /\ osCalls' = [osCalls EXCEPT ![t] = @ + 1]
            /\ IF outcome = "com_panic"
               THEN \* the initialiser panicked: nothing is stored
                    /\ osRes' = [osRes EXCEPT ![t] = [tag |-> "Panic"]]
                    /\ UNCHANGED <<comLib, comCreated, wmiCreated, wmiConn, nextHandle>>
               ELSE /\ comLib' = [comLib EXCEPT ![t] = com_lib]
                    /\ comCreated' =
                         [comCreated EXCEPT ![t] = IF initRuns THEN @ + 1 ELSE @]
                    /\ nextHandle' = IF initRuns THEN nextHandle + 1 ELSE nextHandle
                    /\ IF outcome = "conn_err"
                       THEN \* WMIConnection::new(com_lib)? failed
                            /\ osRes' = [osRes EXCEPT ![t] = Err("Other")]
                            /\ UNCHANGED <<wmiCreated, wmiConn>>
                       ELSE /\ wmiCreated' = [wmiCreated EXCEPT ![t] = @ + 1]
                            /\ wmiConn' = [wmiConn EXCEPT
                                 ![t] = [com |-> com_lib, call |-> osCalls[t] + 1]]
                            /\ osRes' = [osRes EXCEPT ![t] = os_name_result(outcome)]
    /\ UNCHANGED <<batVars, memVars, nameVars, prodVars, pkgVars, netVars>>

WmiInit ==
    /\ comLib = [t \in Threads |-> 0]
    /\ comCreated = [t \in Threads |-> 0]
    /\ wmiCreated = [t \in Threads |-> 0]
    /\ wmiConn = [t \in Threads |-> [com |-> 0, call |-> 0]]
    /\ nextHandle = 1
    /\ osCalls = [t \in Threads |-> 0]
    /\ osRes = [t \in Threads |-> NoResult]

(***************************************************************************)
(* WindowsGeneralReadout::username() and hostname()                        *)
(***************************************************************************)
MaxNameLen == 2

\* bytes a name is made of: two ASCII letters and a byte no UTF-8 text holds
NameBytes == {97, 98, 255}

RECURSIVE SeqsUpTo(_, _)
SeqsUpTo(S, n) ==
    IF n = 0 THEN {<<>>}
    ELSE LET shorter == SeqsUpTo(S, n - 1)
         IN  shorter \cup {Append(s, x) : s \in {q \in shorter : Len(q) = n - 1}, x \in S}

OsNames == SeqsUpTo(NameBytes, MaxNameLen)

\* String::from_utf8 on the bytes NameBytes offers: ASCII is valid, 0xFF never is
from_utf8(bytes) ==
    IF \A i \in 1..Len(bytes) : bytes[i] < 128 THEN Ok(bytes) ELSE Err("Other")

\* String::pop(): the string without its last character
pop(str) == IF Len(str) = 0 THEN str ELSE SubSeq(str, 1, Len(str) - 1)

\* what the buffer holds after a successful call: the name and its terminator
FilledBuffer(name) == Append(name, 0)

\* Vec::set_len(size) over the filled buffer
set_len(buffer, size) == SubSeq(buffer, 1, size)

\* GetUserNameA with a null buffer: the required size, terminator included,
\* or the size left at 0 when the call fails for another reason
GetUserNameA_probe(name, fails) == IF fails THEN 0 ELSE Len(name) + 1

\* GetUserNameA with a buffer of `size` bytes: whether it succeeded and the
\* size it reports, which counts the terminator
GetUserNameA_fetch(name, size, fails) ==
    IF fails \/ Len(name) + 1 > size
    THEN [ok |-> FALSE, size |-> Len(name) + 1]
    ELSE [ok |-> TRUE, size |-> Len(name) + 1]

\* GetComputerNameExA with a null buffer: the required size, terminator included
GetComputerNameExA_probe(name, fails) == IF fails THEN 0 ELSE Len(name) + 1

\* GetComputerNameExA with a buffer of `size` bytes: on success the size it
\* reports is the number of bytes copied, the terminator not counted
GetComputerNameExA_fetch(name, size, fails) ==
    IF fails \/ Len(name) + 1 > size
    THEN [ok |-> FALSE, size |-> Len(name) + 1]
    ELSE [ok |-> TRUE, size |-> Len(name)]

\* (a username() that returns the decoded buffer as it is)
username_tail_keeping_terminator(buffer, size) ==
    from_utf8(set_len(buffer, size))

\* username() after its second call succeeded: set_len, from_utf8, pop
username_tail(buffer, size) ==
    LET str == from_utf8(set_len(buffer, size))
    IN  IF ~IsOk(str) THEN str ELSE Ok(pop(str.val))

\* hostname() after its second call succeeded: set_len, from_utf8
hostname_tail(buffer, size) ==
    from_utf8(set_len(buffer, size))

NoCall == [op |-> "none", probeSize |-> 0, fetchOk |-> FALSE]

\* username(), to its first return: the size probe
UsernameProbe ==
    /\ namePc = "idle"
    /\ \E fails \in BOOLEAN :
        LET size == GetUserNameA_probe(osUser, fails)
        IN  /\ nameSize' = size
            /\ IF size = 0
               THEN /\ namePc' = "idle"
                    /\ nameCall' = [op |-> "username", probeSize |-> 0,
                                    fetchOk |-> FALSE]
                    /\ nameRes' = Err("Other")
               ELSE /\ namePc' = "username"
                    /\ UNCHANGED <<nameCall, nameRes>>
    /\ UNCHANGED <<osUser, osHost>>
    /\ UNCHANGED <<batVars, memVars, wmiVars, prodVars, pkgVars, netVars>>

\* username(), from its second OS call to its return
UsernameFetch ==
    /\ namePc = "username"
    /\ \E fails \in BOOLEAN :
        LET got == GetUserNameA_fetch(osUser, nameSize, fails)
        IN  /\ namePc' = "idle"
            /\ nameCall' = [op |-> "username", probeSize |-> nameSize,
                            fetchOk |-> got.ok]
            /\ IF ~got.ok
               THEN /\ nameRes' = Err("Other")
                    /\ UNCHANGED nameSize
               ELSE /\ nameSize' = got.size
                    /\ nameRes' = username_tail(FilledBuffer(osUser), got.size)
    /\ UNCHANGED <<osUser, osHost>>
    /\ UNCHANGED <<batVars, memVars, wmiVars, prodVars, pkgVars, netVars>>

\* hostname(), to its first return: the size probe
HostnameProbe ==
    /\ namePc = "idle"
    /\ \E fails \in BOOLEAN :
        LET size == GetComputerNameExA_probe(osHost, fails)
        IN  /\ nameSize' = size
            /\ IF size = 0
               THEN /\ namePc' = "idle"
                    /\ nameCall' = [op |-> "hostname", probeSize |-> 0,
                                    fetchOk |-> FALSE]
                    /\ nameRes' = Err("Other")
               ELSE /\ namePc' = "hostname"
                    /\ UNCHANGED <<nameCall, nameRes>>
    /\ UNCHANGED <<osUser, osHost>>
    /\ UNCHANGED <<batVars, memVars, wmiVars, prodVars, pkgVars, netVars>>

\* hostname(), from its second OS call to its return
HostnameFetch ==
    /\ namePc = "hostname"
    /\ \E fails \in BOOLEAN :
        LET got == GetComputerNameExA_fetch(osHost, nameSize, fails)
        IN  /\ namePc' = "idle"
            /\ nameCall' = [op |-> "hostname", probeSize |-> nameSize,
                            fetchOk |-> got.ok]
            /\ IF ~got.ok
               THEN /\ nameRes' = Err("Other")
                    /\ UNCHANGED nameSize
               ELSE /\ nameSize' = got.size
                    /\ nameRes' = hostname_tail(FilledBuffer(osHost), got.size)
    /\ UNCHANGED <<osUser, osHost>>
    /\ UNCHANGED <<batVars, memVars, wmiVars, prodVars, pkgVars, netVars>>

\* a name as edited by one byte: one appended, or the last one dropped
Edits(name) ==
    {Append(name, b) : b \in IF Len(name) < MaxNameLen THEN NameBytes ELSE {}}
        \cup (IF Len(name) > 0 THEN {pop(name)} ELSE {})

\* the user name changes under the program, also between its two OS calls
OsRenameUser ==
    /\ \E user \in Edits(osUser) : osUser' = user
    /\ UNCHANGED <<osHost, namePc, nameSize, nameCall, nameRes>>
    /\ UNCHANGED <<batVars, memVars, wmiVars, prodVars, pkgVars, netVars>>

\* the host name changes under the program, also between its two OS calls
OsRenameHost ==
    /\ \E host \in Edits(osHost) : osHost' = host
    /\ UNCHANGED <<osUser, namePc, nameSize, nameCall, nameRes>>
    /\ UNCHANGED <<batVars, memVars, wmiVars, prodVars, pkgVars, netVars>>

NameInit ==
    /\ osUser \in OsNames
    /\ osHost \in OsNames
    /\ namePc = "idle"
    /\ nameSize = 0
    /\ nameCall = NoCall
    /\ nameRes = NoResult

NameIdle ==
    /\ osUser = <<>>
    /\ osHost = <<>>
    /\ namePc = "idle"
    /\ nameSize = 0
    /\ nameCall = NoCall
    /\ nameRes = NoResult

(***************************************************************************)
(* Option<T>, and a probe that panics instead of returning                 *)
(***************************************************************************)
Some(v) == [opt |-> "Some", val |-> v]
None == [opt |-> "None"]
Panic == [opt |-> "Panic"]

IsSome(o) == o.opt = "Some"

\* Result::ok()
ok(r) == IF IsOk(r) THEN Some(r.val) ELSE None

(***************************************************************************)
(* WindowsProductReadout                                                   *)
(***************************************************************************)
MaxNew == 2

\* a registry value: absent, present with another type, or a string
RegValues ==
    {[kind |-> "absent", data |-> ""], [kind |-> "REG_DWORD", data |-> ""],
     [kind |-> "REG_SZ", data |-> "Dell Inc."], [kind |-> "REG_SZ", data |-> "XPS 13"]}

Registry ==
    [keyOpens : BOOLEAN, SystemManufacturer : RegValues, SystemProductName : RegValues]

\* RegKey::get_value::<String>(name)
get_value(key, name) ==
    IF key[name].kind = "REG_SZ" THEN Ok(key[name].data) ELSE Err("Other")

\* (a constructor that reads SystemManufacturer into both fields)
product_new_fields_one_value(key) ==
    [manufacturer |-> ok(get_value(key, "SystemManufacturer")),
     model |-> ok(get_value(key, "SystemManufacturer"))]

\* the struct new() builds once the key is open
product_new_fields(key) ==
    [manufacturer |-> ok(get_value(key, "SystemManufacturer")),
     model |-> ok(get_value(key, "SystemProductName"))]

vendor(self) ==
    IF IsSome(self.manufacturer) THEN Ok(self.manufacturer.val) ELSE Err("Other")

product(self) ==
    IF IsSome(self.model) THEN Ok(self.model.val) ELSE Err("Other")

family(self) == Err("NotImplemented")

NoObject == [live |-> FALSE, fields |-> [manufacturer |-> None, model |-> None]]

\* WindowsProductReadout::new(): open_subkey(..).unwrap() panics if the key
\* cannot be opened, and no value is constructed
ProductNew ==
    /\ prodGen < MaxNew
    /\ prodGen' = prodGen + 1
    /\ IF prodReg.keyOpens
       THEN /\ prodObj' = [live |-> TRUE, fields |-> product_new_fields(prodReg)]
            /\ prodOp' = "new"
       ELSE /\ prodObj' = NoObject
            /\ prodOp' = "new_panicked"
    /\ prodSeen' = prodReg
    /\ prodRes' = NoResult
    /\ UNCHANGED prodReg
    /\ UNCHANGED <<batVars, memVars, wmiVars, nameVars, pkgVars, netVars>>

Vendor ==
    /\ prodObj.live
    /\ prodOp' = "vendor"
    /\ prodRes' = vendor(prodObj.fields)
    /\ UNCHANGED <<prodReg, prodObj, prodSeen, prodGen>>
    /\ UNCHANGED <<batVars, memVars, wmiVars, nameVars, pkgVars, netVars>>

Product ==
    /\ prodObj.live
    /\ prodOp' = "product"
    /\ prodRes' = product(prodObj.fields)
    /\ UNCHANGED <<prodReg, prodObj, prodSeen, prodGen>>
    /\ UNCHANGED <<batVars, memVars, wmiVars, nameVars, pkgVars, netVars>>

Family ==
    /\ prodObj.live
    /\ prodOp' = "family"
    /\ prodRes' = family(prodObj.fields)
    /\ UNCHANGED <<prodReg, prodObj, prodSeen, prodGen>>
    /\ UNCHANGED <<batVars, memVars, wmiVars, nameVars, pkgVars, netVars>>

\* the registry is written by someone else: one value, or the key's access
RegistryChange ==
    /\ \E reg \in Registry :
        /\ Cardinality({f \in {"keyOpens", "SystemManufacturer", "SystemProductName"} :
                          reg[f] # prodReg[f]}) = 1
        /\ prodReg' = reg
    /\ UNCHANGED <<prodObj, prodSeen, prodGen, prodOp, prodRes>>
    /\ UNCHANGED <<batVars, memVars, wmiVars, nameVars, pkgVars, netVars>>

ProductInit ==
    /\ prodReg \in Registry
    /\ prodObj = NoObject
    /\ prodSeen = prodReg
    /\ prodGen = 0
    /\ prodOp = "none"
    /\ prodRes = NoResult

ProductIdle ==
    /\ prodReg = [keyOpens |-> TRUE,
                  SystemManufacturer |-> [kind |-> "absent", data |-> ""],
                  SystemProductName |-> [kind |-> "absent", data |-> ""]]
    /\ prodObj = NoObject
    /\ prodSeen = prodReg
    /\ prodGen = 0
    /\ prodOp = "none"
    /\ prodRes = NoResult

(***************************************************************************)
(* WindowsPackageReadout                                                   *)
(***************************************************************************)
MaxEntries == 2
MaxRows == 2
MaxCargo == 1

\* a directory: the number of its entries, or Unreadable when read_dir fails
\* (the directory is missing, is no directory, or may not be listed)
Unreadable == 0 - 1
Dirs == {Unreadable} \cup 0..MaxEntries

\* the Winget database file: missing, not openable as SQLite, without the
\* table `ids`, or readable
DbStates == {"missing", "not_sqlite", "no_ids_table", "readable"}

PkgEnvs ==
    [SCOOP : BOOLEAN,           \* env::var("SCOOP") is Ok
     home : BOOLEAN,            \* home::home_dir() is Some
     USERNAME : BOOLEAN,        \* env::var("USERNAME") is Ok
     overflow_checks : BOOLEAN, \* the build profile: debug or release
     cargo : {Unreadable} \cup 0..MaxCargo]   \* crate::shared::count_cargo()

PkgFss ==
    {fs \in [scoop_var_apps : Dirs,   \* $SCOOP\apps
             home_apps : Dirs,        \* <home>\scoop\apps
             winget_db : DbStates,
             winget_rows : 0..MaxRows,
             choco_is_dir : BOOLEAN,  \* C:\ProgramData\chocolatey\lib
             choco_lib : Dirs] :
        /\ fs.winget_db # "readable" => fs.winget_rows = 0
        /\ ~fs.choco_is_dir => fs.choco_lib = Unreadable}

\* usize subtraction: a panic with overflow checks on, wrapping without
usize_sub(a, b, overflow_checks) ==
    IF WLess(a, b) /\ overflow_checks THEN Panic ELSE Some(WSubWrap(a, b))

count_cargo(env) ==
    IF env.cargo = Unreadable THEN None ELSE Some(WFromNat(env.cargo))

\* (a count_scoop() that reports every entry, scoop's own included)
scoop_count_all_entries(entries, overflow_checks) == Some(WFromNat(entries))

\* dir.count() - 1
scoop_count(entries, overflow_checks) ==
    usize_sub(WFromNat(entries), WFromNat(1), overflow_checks)

count_scoop(env, fs) ==
    IF ~env.SCOOP /\ ~env.home
    THEN Panic    \* home::home_dir().unwrap()
    ELSE LET apps == IF env.SCOOP THEN fs.scoop_var_apps ELSE fs.home_apps
         IN  IF apps = Unreadable THEN None
             ELSE scoop_count(apps, env.overflow_checks)

count_winget(env, fs) ==
    IF env.USERNAME
    THEN CASE fs.winget_db = "missing" -> None        \* !is_file()
           [] fs.winget_db = "not_sqlite" -> None     \* open or prepare fails
           [] fs.winget_db = "no_ids_table" -> None   \* prepare fails
           [] OTHER -> Some(WFromNat(fs.winget_rows)) \* count as usize
    ELSE None

count_chocolatey(fs) ==
    IF fs.choco_is_dir /\ fs.choco_lib # Unreadable
    THEN Some(WFromNat(fs.choco_lib))
    ELSE None

\* packages.push((manager, c)) if the probe gave Some(c)
push_if_some(packages, manager, probe) ==
    IF IsSome(probe) THEN Append(packages, [manager |-> manager, count |-> probe.val])
    ELSE packages

\* count_pkgs(): the four probes in order; a probe's panic ends the call
count_pkgs(env, fs) ==
    LET cargo == count_cargo(env)
        scoop == count_scoop(env, fs)
        winget == count_winget(env, fs)
        choco == count_chocolatey(fs)
        p1 == push_if_some(<<>>, "Cargo", cargo)
        p2 == push_if_some(p1, "Scoop", scoop)
        p3 == push_if_some(p2, "Winget", winget)
        p4 == push_if_some(p3, "Chocolatey", choco)
    IN  IF scoop = Panic
        THEN [out |-> "panicked", packages |-> <<>>]
        ELSE [out |-> "returned", packages |-> p4]

CountPkgs ==
    /\ pkgOut = "none"
    /\ pkgOut' = count_pkgs(pkgEnv, pkgFs).out
    /\ pkgRes' = count_pkgs(pkgEnv, pkgFs).packages
    /\ UNCHANGED <<pkgEnv, pkgFs>>
    /\ UNCHANGED <<batVars, memVars, wmiVars, nameVars, prodVars, netVars>>

\* the caller drops the list (or the panic was caught) before it calls again
PkgForget ==
    /\ pkgOut # "none"
    /\ pkgOut' = "none"
    /\ pkgRes' = <<>>
    /\ UNCHANGED <<pkgEnv, pkgFs>>
    /\ UNCHANGED <<batVars, memVars, wmiVars, nameVars, prodVars, netVars>>

PackageInit ==
    /\ pkgEnv \in PkgEnvs
    /\ pkgFs \in PkgFss
    /\ ~pkgEnv.home => pkgFs.home_apps = Unreadable
    /\ pkgOut = "none"
    /\ pkgRes = <<>>

PackageIdle ==
    /\ pkgEnv = [SCOOP |-> FALSE, home |-> TRUE, USERNAME |-> FALSE,
                 overflow_checks |-> FALSE, cargo |-> Unreadable]
    /\ pkgFs = [scoop_var_apps |-> Unreadable, home_apps |-> Unreadable,
                winget_db |-> "missing", winget_rows |-> 0,
                choco_is_dir |-> FALSE, choco_lib |-> Unreadable]
    /\ pkgOut = "none"
    /\ pkgRes = <<>>

(***************************************************************************)
(* WindowsNetworkReadout                                                   *)
(***************************************************************************)
MaxIfaces == 2

IfNames == {"Ethernet", "Wi-Fi"}
IpAddrs == [v6 : BOOLEAN, host : 1..2]

\* IpAddr::to_string()
to_string(ip) ==
    IF ip.v6 THEN "fe80::" \o ToString(ip.host)
    ELSE "192.168.0." \o ToString(ip.host)

Netifas == SeqsUpTo([name : IfNames, ip : IpAddrs], MaxIfaces)

\* the indices of the entries addresses.iter() visits that have the name
Matching(addresses, interface) ==
    {i \in 1..Len(addresses) : addresses[i].name = interface}

\* (a find that keeps the last match)
find_last(addresses, interface) ==
    LET m == Matching(addresses, interface)
    IN  IF m = {} THEN None
        ELSE Some(addresses[CHOOSE i \in m : \A j \in m : j <= i])

\* addresses.iter().find(|(name, _)| name == interface)
RECURSIVE find_from(_, _, _)
find_from(addresses, interface, i) ==
    IF i > Len(addresses) THEN None
    ELSE IF addresses[i].name = interface THEN Some(addresses[i])
    ELSE find_from(addresses, interface, i + 1)

find(addresses, interface) == find_from(addresses, interface, 1)

NoLocalIp == [v6 |-> FALSE, host |-> 0]

logical_address(interface, listOk, addresses, local_ip) ==
    IF IsSome(interface)
    THEN IF listOk /\ IsSome(find(addresses, interface.val))
         THEN Ok(to_string(find(addresses, interface.val).val.ip))
         ELSE Err("Other")
    ELSE IF local_ip # NoLocalIp
         THEN Ok(to_string(local_ip))
         ELSE Err("Other")

LogicalAddress ==
    /\ \E interface \in {None} \cup {Some(n) : n \in IfNames \cup {"Loopback"}} :
        /\ netArg' = interface
        /\ netRes' = logical_address(interface, netListOk, netIfaces, netLocal)
    /\ UNCHANGED <<netIfaces, netListOk, netLocal>>
    /\ UNCHANGED <<batVars, memVars, wmiVars, nameVars, prodVars, pkgVars>>

NetworkUnsupported ==
    /\ \E op \in {"tx_bytes", "tx_packets", "rx_bytes", "rx_packets", "physical_address"} :
        /\ netArg' = [opt |-> op]
        /\ netRes' = Err("NotImplemented")
    /\ UNCHANGED <<netIfaces, netListOk, netLocal>>
    /\ UNCHANGED <<batVars, memVars, wmiVars, nameVars, prodVars, pkgVars>>

NetworkInit ==
    /\ netIfaces \in Netifas
    /\ netListOk \in BOOLEAN
    /\ netLocal \in IpAddrs \cup {NoLocalIp}
    /\ netArg = [opt |-> "none"]
    /\ netRes = NoResult

NetworkIdle ==
    /\ netIfaces = <<>>
    /\ netListOk = TRUE
    /\ netLocal = NoLocalIp
    /\ netArg = [opt |-> "none"]
    /\ netRes = NoResult

(***************************************************************************)
(* Specifications: one readout at a time, the others left as constructed   *)
(***************************************************************************)
BatteryNext == Percentage \/ Status \/ Health

BatteryOnlyInit ==
    /\ BatteryInit /\ MemoryIdle /\ WmiInit /\ NameIdle /\ ProductIdle
    /\ PackageIdle /\ NetworkIdle

SpecBattery == BatteryOnlyInit /\ [][BatteryNext]_vars

MemoryNext == Total \/ Used \/ MemoryUnsupported

MemoryOnlyInit ==
    /\ BatteryIdle /\ MemoryInit /\ WmiInit /\ NameIdle /\ ProductIdle
    /\ PackageIdle /\ NetworkIdle

SpecMemory == MemoryOnlyInit /\ [][MemoryNext]_vars

WmiNext == \E t \in Threads : OsName(t)

WmiOnlyInit ==
    /\ BatteryIdle /\ MemoryIdle /\ WmiInit /\ NameIdle /\ ProductIdle
    /\ PackageIdle /\ NetworkIdle

SpecWmi == WmiOnlyInit /\ [][WmiNext]_vars

NameNext ==
    UsernameProbe \/ UsernameFetch \/ HostnameProbe \/ HostnameFetch
        \/ OsRenameUser \/ OsRenameHost

NameOnlyInit ==
    /\ BatteryIdle /\ MemoryIdle /\ WmiInit /\ NameInit /\ ProductIdle
    /\ PackageIdle /\ NetworkIdle

SpecName == NameOnlyInit /\ [][NameNext]_vars

ProductNext == ProductNew \/ Vendor \/ Product \/ Family \/ RegistryChange

ProductOnlyInit ==
    /\ BatteryIdle /\ MemoryIdle /\ WmiInit /\ NameIdle /\ ProductInit
    /\ PackageIdle /\ NetworkIdle

SpecProduct == ProductOnlyInit /\ [][ProductNext]_vars

PackageNext == CountPkgs \/ PkgForget

PackageOnlyInit ==
    /\ BatteryIdle /\ MemoryIdle /\ WmiInit /\ NameIdle /\ ProductIdle
    /\ PackageInit /\ NetworkIdle

SpecPackage == PackageOnlyInit /\ [][PackageNext]_vars

NetworkNext == LogicalAddress \/ NetworkUnsupported

NetworkOnlyInit ==
    /\ BatteryIdle /\ MemoryIdle /\ WmiInit /\ NameIdle /\ ProductIdle
    /\ PackageIdle /\ NetworkInit

SpecNetwork == NetworkOnlyInit /\ [][NetworkNext]_vars

(***************************************************************************)
(* The claims                                                              *)
(***************************************************************************)

\* the apps directory count_scoop() is documented to read: under $SCOOP if
\* that is set, otherwise under <home>\scoop, which exists only with a home
ScoopApps ==
    IF pkgEnv.SCOOP THEN pkgFs.scoop_var_apps
    ELSE IF pkgEnv.home THEN pkgFs.home_apps ELSE Unreadable

\* the positions of a manager's pairs in the returned list
PairsOf(manager) == {i \in 1..Len(pkgRes) : pkgRes[i].manager = manager}

\* C1: count_pkgs() never fails as a whole: whatever the environment and the
\* file system, a finished call has returned a list (it did not abort), and
\* no count in the list is a wrapped-around value: the Scoop count is below
\* the number of entries of the apps directory, the Winget count is the row
\* count, the Chocolatey count is the number of entries of the lib directory.
C1_NeverFailsAsAWhole ==
    pkgOut # "none" =>
        /\ pkgOut = "returned"
        /\ \A i \in PairsOf("Scoop") :
              ScoopApps # Unreadable /\ WLeq(pkgRes[i].count, WFromNat(ScoopApps))
        /\ \A i \in PairsOf("Winget") : pkgRes[i].count = WFromNat(pkgFs.winget_rows)
        /\ \A i \in PairsOf("Chocolatey") :
              pkgFs.choco_lib # Unreadable /\ pkgRes[i].count = WFromNat(pkgFs.choco_lib)

\* C2: for every raw BatteryLifePercent of a successful power-status call,
\* percentage() answers the sentinel 255 with a Warning and accepts only
\* 0..100: every Ok(p) has 0 <= p <= 100.
C2_OnlyPercentagesAccepted ==
    (batOp = "percentage" /\ batCallOk) =>
        /\ batPower.BatteryLifePercent = 255 => IsErr(batRes, "Warning")
        /\ IsOk(batRes) => batRes.val \in 0..100

IsDiv1024(q, a) ==
    /\ q[4] < 64
    /\ \E r \in 0..1023 : WAddWrap(WMulSmall(q, 1024), WFromNat(r)) = a

\* q is (a - b) / 1024 rounded down, for b <= a: q * 1024 + r + b = a
IsDiffDiv1024(q, a, b) ==
    /\ q[4] < 64
    /\ \E r \in 0..1023 :
          WAddWrap(WAddWrap(WMulSmall(q, 1024), WFromNat(r)), b) = a

\* C4: for every snapshot with available <= total, used() is
\* (total - available) div 1024 and total() is total div 1024, the division
\* being the integer division by exactly 1024; 2,147,483,648 bytes give
\* 2,097,152; the result is decided by the one snapshot of the call.
C4_MemoryInKilobytes ==
    /\ (memOp = "used" /\ memCallOk) =>
          /\ IsOk(memRes)
          /\ IsDiffDiv1024(memRes.val, memSnap.ullTotalPhys, memSnap.ullAvailPhys)
    /\ (memOp = "total" /\ memCallOk) =>
          /\ IsOk(memRes)
          /\ IsDiv1024(memRes.val, memSnap.ullTotalPhys)
          /\ memSnap.ullTotalPhys = <<0, 2^15, 0, 0>>
                => memRes.val = WFromNat(2097152)

\* C4 witness: used() of a snapshot whose two terms, divided separately,
\* would give another result: total 2^31, available 1
C4_Witness ==
    /\ memOp = "used" /\ memCallOk /\ IsOk(memRes)
    /\ memSnap.ullTotalPhys = <<0, 2^15, 0, 0>>
    /\ memSnap.ullAvailPhys = <<1, 0, 0, 0>>
    /\ memRes.val = WFromNat(2097151)

\* C5: status() maps ACLineStatus 0 to Discharging and 1 to Charging, answers
\* every other value with an Other error (none is coerced to a state), and
\* answers a failed power-status call with an Other error.
C5_StatusMapping ==
    batOp = "status" =>
        /\ ~batCallOk => IsErr(batRes, "Other")
        /\ (batCallOk /\ batPower.ACLineStatus = 0) =>
              IsOk(batRes) /\ batRes.val = "Discharging"
        /\ (batCallOk /\ batPower.ACLineStatus = 1) =>
              IsOk(batRes) /\ batRes.val = "Charging"
        /\ (batCallOk /\ batPower.ACLineStatus \notin {0, 1}) =>
              IsErr(batRes, "Other")

\* C5 witness: a status() call that met a line status that is neither 0 nor 1
C5_Witness ==
    /\ batOp = "status" /\ batCallOk
    /\ batPower.ACLineStatus = 255
    /\ IsErr(batRes, "Other")

\* C6: with a readable Scoop apps directory of N >= 1 entries (under $SCOOP
\* if set, otherwise under <home>\scoop), count_pkgs() returns a list with
\* exactly one Scoop pair, whose count is N - 1.
C6_ScoopCount ==
    (pkgOut # "none" /\ ScoopApps # Unreadable /\ ScoopApps >= 1) =>
        /\ pkgOut = "returned"
        /\ Cardinality(PairsOf("Scoop")) = 1
        /\ \A i \in PairsOf("Scoop") : pkgRes[i].count = WFromNat(ScoopApps - 1)

\* C6 witness: a call that counted a $SCOOP apps directory of two entries
\* while <home>\scoop\apps held another number
C6_Witness ==
    /\ pkgOut = "returned"
    /\ pkgEnv.SCOOP /\ pkgFs.scoop_var_apps = 2 /\ pkgFs.home_apps = 1
    /\ \E i \in PairsOf("Scoop") : pkgRes[i].count = WFromNat(1)

\* whether each probe's data source is there, by the claim's words
WingetSource ==
    pkgEnv.USERNAME /\ pkgFs.winget_db = "readable"
ChocolateySource ==
    pkgFs.choco_is_dir /\ pkgFs.choco_lib # Unreadable

\* the pairs of a list are in the order Cargo, Scoop, Winget, Chocolatey
ManagerRank(manager) ==
    CASE manager = "Cargo" -> 1
      [] manager = "Scoop" -> 2
      [] manager = "Winget" -> 3
      [] manager = "Chocolatey" -> 4

InFixedOrder(packages) ==
    \A i, j \in 1..Len(packages) :
        i < j => ManagerRank(packages[i].manager) < ManagerRank(packages[j].manager)

\* C7: a manager whose data source is absent has no pair in the result, it
\* is not reported with count 0; whether a manager's pair is present, and
\* its count, is decided by that manager's data source alone, whatever the
\* state of the other managers; the pairs are in the order Cargo, Scoop,
\* Winget, Chocolatey, each manager at most once.
C7_ManagersIndependent ==
    pkgOut # "none" =>
        /\ InFixedOrder(pkgRes)
        /\ ScoopApps = Unreadable => PairsOf("Scoop") = {}
        /\ IF WingetSource
           THEN \E i \in PairsOf("Winget") : pkgRes[i].count = WFromNat(pkgFs.winget_rows)
           ELSE PairsOf("Winget") = {}
        /\ IF ChocolateySource
           THEN \E i \in PairsOf("Chocolatey") : pkgRes[i].count = WFromNat(pkgFs.choco_lib)
           ELSE PairsOf("Chocolatey") = {}
        /\ IF pkgEnv.cargo # Unreadable
           THEN \E i \in PairsOf("Cargo") : pkgRes[i].count = WFromNat(pkgEnv.cargo)
           ELSE PairsOf("Cargo") = {}

\* what C7 says of the calls that do return (it holds of them)
C7_HoldsOfReturnedLists ==
    pkgOut = "returned" => C7_ManagersIndependent

\* what a registry value gives a field at construction
StoredFrom(value) ==
    IF value.kind = "REG_SZ" THEN Some(value.data) ELSE None

\* C8: for a Product Probe constructed with the key openable, vendor() is
\* decided by SystemManufacturer as read at construction and product() by
\* SystemProductName as read at construction: the stored string if it was
\* present, an Other error if not; the stored values stay what construction
\* read, whatever accessor calls and registry changes follow.
C8_ProductValues ==
    prodObj.live =>
        /\ prodSeen.keyOpens
        /\ prodObj.fields.manufacturer = StoredFrom(prodSeen.SystemManufacturer)
        /\ prodObj.fields.model = StoredFrom(prodSeen.SystemProductName)
        /\ prodOp = "vendor" =>
              IF prodSeen.SystemManufacturer.kind = "REG_SZ"
              THEN IsOk(prodRes) /\ prodRes.val = prodSeen.SystemManufacturer.data
              ELSE IsErr(prodRes, "Other")
        /\ prodOp = "product" =>
              IF prodSeen.SystemProductName.kind = "REG_SZ"
              THEN IsOk(prodRes) /\ prodRes.val = prodSeen.SystemProductName.data
              ELSE IsErr(prodRes, "Other")

\* C8 witness: product() failing on a probe whose vendor is stored, after
\* the registry got the product name it lacked at construction
C8_Witness ==
    /\ prodObj.live /\ prodOp = "product" /\ IsErr(prodRes, "Other")
    /\ IsSome(prodObj.fields.manufacturer)
    /\ prodSeen.SystemProductName.kind = "absent"
    /\ prodReg.SystemProductName.kind = "REG_SZ"

\* what C9 says of the call that returned last
C9_Returned ==
    nameCall.op # "none" =>
        /\ IsOk(nameRes) => \A i \in 1..Len(nameRes.val) : nameRes.val[i] # 0
        /\ nameCall.probeSize = 0 => IsErr(nameRes, "Other")
        /\ ~nameCall.fetchOk => IsErr(nameRes, "Other")

\* what C9 says of the step in which a call returns from its second OS call:
\* an Ok result is the name the OS holds in that step
C9_Returning ==
    /\ (namePc = "username" /\ namePc' = "idle" /\ IsOk(nameRes')) => nameRes'.val = osUser
    /\ (namePc = "hostname" /\ namePc' = "idle" /\ IsOk(nameRes')) => nameRes'.val = osHost

\* C9: whenever username() or hostname() returns Ok, the string holds no
\* null byte and is the name the OS reported in the second call, nothing
\* removed; a first call that reports size 0 and a second call that fails
\* give an Other error.
C9_NamesDecoded == []C9_Returned /\ [][C9_Returning]_vars

\* C9 witness: username() returning a one-byte name that replaced a two-byte
\* one between the two calls
C9_Witness ==
    /\ nameCall.op = "username" /\ IsOk(nameRes)
    /\ nameCall.probeSize = 3
    /\ Len(nameRes.val) = 1 /\ nameSize = 2

\* C10: with an interface name, logical_address() is the address of the
\* first enumerated interface of that name, and an Other error if the
\* enumeration fails or no interface has the name (never the default local
\* address); without a name it is the default local address, or an Other
\* error if that lookup fails.
C10_LogicalAddress ==
    /\ netArg.opt = "Some" =>
          LET m == Matching(netIfaces, netArg.val)
          IN  IF netListOk /\ m # {}
              THEN LET first == CHOOSE i \in m : \A j \in m : i <= j
                   IN  IsOk(netRes) /\ netRes.val = to_string(netIfaces[first].ip)
              ELSE IsErr(netRes, "Other")
    /\ netArg.opt = "None" =>
          IF netLocal # NoLocalIp
          THEN IsOk(netRes) /\ netRes.val = to_string(netLocal)
          ELSE IsErr(netRes, "Other")

\* C10 witness: a name carried by two interfaces with different addresses
C10_Witness ==
    /\ netArg.opt = "Some" /\ IsOk(netRes)
    /\ Len(netIfaces) = 2
    /\ netIfaces[1].name = netArg.val /\ netIfaces[2].name = netArg.val
    /\ netIfaces[1].ip # netIfaces[2].ip
    /\ netLocal # NoLocalIp /\ netLocal # netIfaces[1].ip

====
